---- MODULE Spec2Model ----
(***************************************************************************)
(* Model of src/supabase.js: the one-shot bootstrap of the Supabase client *)
(* handle and the eight entity operations that are gated on that handle.   *)
(*                                                                         *)
(* JavaScript values are tagged records ([t |-> "null"], [t |-> "string",  *)
(* v |-> ...], ...).  A string is a sequence of one-character strings so   *)
(* that String.prototype.toUpperCase is computed character by character.   *)
(* An async function is split at its single await: the synchronous part    *)
(* (<op>_call) either returns or issues the remote query, the continuation *)
(* (<op>_resume) translates what the awaited promise settled with.         *)
(***************************************************************************)
EXTENDS Integers, Sequences, FiniteSets, TLC

VARIABLES
  env,                        \* what the hosting process supplies at load
  pc,                         \* position of the module body
  createClient,               \* line 3
  SUPABASE_URL,               \* line 13
  SUPABASE_SERVICE_ROLE_KEY,  \* line 14
  supabase,                   \* line 17: the connection handle
  inflight,                   \* per caller: the invocation suspended at await
  settled,                    \* the invocation that returned most recently
  clinics                     \* rows of the remote clinics table (SpecStore)

vars == <<env, pc, createClient, SUPABASE_URL, SUPABASE_SERVICE_ROLE_KEY,
          supabase, inflight, settled, clinics>>

-----------------------------------------------------------------------------
(* Bounds *)

MaxClinicRows == 3    \* longest row list the remote returns for clinics
MaxPatientRows == 2   \* longest row list the remote returns for patients
MaxStored == 2        \* capacity of the remote clinics table in SpecStore

-----------------------------------------------------------------------------
(* JavaScript values *)

JSNull == [t |-> "null"]
JSUndefined == [t |-> "undefined"]
Str(s) == [t |-> "string", v |-> s]
Obj(r) == [t |-> "object", v |-> r]
Arr(s) == [t |-> "array", v |-> s]
ErrorObject == [t |-> "object", v |-> [message |-> "backend error"]]

\* ToBoolean for the values that occur: null, undefined and "" are falsy,
\* every object, array and function is truthy.
Truthy(x) ==
  CASE x.t = "null" -> FALSE
    [] x.t = "undefined" -> FALSE
    [] x.t = "string" -> x.v # <<>>
    [] OTHER -> TRUE

\* String.prototype.toUpperCase on one character.
UpperChar(ch) ==
  CASE ch = "a" -> "A"
    [] ch = "b" -> "B"
    [] ch = "o" -> "O"
    [] ch = "p" -> "P"
    [] ch = "r" -> "R"
    [] ch = "t" -> "T"
    [] OTHER -> ch

toUpperCase(s) == [i \in 1..Len(s) |-> UpperChar(s[i])]

\* Completion records of a piece of code.
Return(v) == [kind |-> "return", value |-> v]
Throw == [kind |-> "throw"]
Await(q) == [kind |-> "await", query |-> q]

\* Mutant: the body without its try/catch.
TryCatch_Rethrows(body, neutral) == body

\* try { body } catch (error) { console.error(...); return neutral; }
TryCatch(body, neutral) ==
  IF body.kind = "throw" THEN Return(neutral) ELSE body

-----------------------------------------------------------------------------
(* Bootstrap: lines 3-38 *)

EnvStrings == {JSUndefined, Str(<<>>), Str(<<"u", "r", "l">>)}
EnvKeys == {JSUndefined, Str(<<>>), Str(<<"k", "e", "y">>)}

ClientFunction == [t |-> "function"]

Client(url, key) ==
  [t |-> "client", url |-> url, key |-> key,
   autoRefreshToken |-> FALSE, persistSession |-> FALSE]

\* process.env.X || ""
OrEmpty(x) == IF Truthy(x) THEN x.v ELSE <<>>

\* the callers that may have an invocation suspended at the same time
Callers == {"c1", "c2"}
Idle == [op |-> "idle"]

Init ==
  /\ env \in [packageInstalled : BOOLEAN,
              SUPABASE_URL : EnvStrings,
              SUPABASE_SERVICE_ROLE_KEY : EnvKeys,
              constructorThrows : BOOLEAN]
  /\ pc = "require"
  /\ createClient = JSNull
  /\ SUPABASE_URL = <<>>
  /\ SUPABASE_SERVICE_ROLE_KEY = <<>>
  /\ supabase = JSNull
  /\ inflight = [c \in Callers |-> Idle]
  /\ settled = [op |-> "none"]
  /\ clinics = <<>>

\* lines 3-10: require inside try, the catch only warns
RequireClientLibrary ==
  /\ pc = "require"
  /\ createClient' = IF env.packageInstalled THEN ClientFunction ELSE JSNull
  /\ pc' = "credentials"
  /\ UNCHANGED <<env, SUPABASE_URL, SUPABASE_SERVICE_ROLE_KEY, supabase,
                 inflight, settled, clinics>>

\* lines 13-14
ReadCredentials ==
  /\ pc = "credentials"
  /\ SUPABASE_URL' = OrEmpty(env.SUPABASE_URL)
  /\ SUPABASE_SERVICE_ROLE_KEY' = OrEmpty(env.SUPABASE_SERVICE_ROLE_KEY)
  /\ pc' = "client"
  /\ UNCHANGED <<env, createClient, supabase, inflight, settled, clinics>>

\* line 20: what the library's createClient does with the two strings
ConstructClient(url, key) ==
  IF env.constructorThrows THEN Throw ELSE Return(Client(url, key))

\* Mutant: the condition of line 18 without the key.
CreateSupabaseClient_IgnoresKey ==
  IF Truthy(createClient) /\ Truthy(Str(SUPABASE_URL))
  THEN LET made == ConstructClient(SUPABASE_URL, SUPABASE_SERVICE_ROLE_KEY)
       IN  IF made.kind = "throw"
           THEN [handle |-> JSNull, pc |-> "loaded"]
           ELSE [handle |-> made.value, pc |-> "loaded"]
  ELSE [handle |-> JSNull, pc |-> "loaded"]

\* lines 17-38: the value of `supabase` and whether the module body completed
CreateSupabaseClient ==
  IF /\ Truthy(createClient)
     /\ Truthy(Str(SUPABASE_URL))
     /\ Truthy(Str(SUPABASE_SERVICE_ROLE_KEY))
  THEN LET made == ConstructClient(SUPABASE_URL, SUPABASE_SERVICE_ROLE_KEY)
       IN  IF made.kind = "throw"
           THEN [handle |-> JSNull, pc |-> "loaded"]
           ELSE [handle |-> made.value, pc |-> "loaded"]
  ELSE [handle |-> JSNull, pc |-> "loaded"]

InitializeClient ==
  /\ pc = "client"
  /\ supabase' = CreateSupabaseClient.handle
  /\ pc' = CreateSupabaseClient.pc
  /\ UNCHANGED <<env, createClient, SUPABASE_URL, SUPABASE_SERVICE_ROLE_KEY,
                 inflight, settled, clinics>>

\* Mutant: the gate compares with undefined instead of null.
isSupabaseAvailable_NotUndefined == supabase # JSUndefined

\* lines 41-43
isSupabaseAvailable == supabase # JSNull

-----------------------------------------------------------------------------
(* The query builder and what the awaited query settles with *)

\* supabase.from(table).<verb>(payload).eq(column, value)[.select()][.single()]
Query(table, verb, payload, filter, single) ==
  [table |-> table, verb |-> verb, payload |-> payload, filter |-> filter,
   single |-> single]

NoFilter == <<>>
Eq(column, value) == <<column, value>>

\* await: the promise rejects, or resolves to { data, error }
Rejects == [kind |-> "rejects"]
Resolves(data, error) == [kind |-> "resolves", data |-> data, error |-> error]
NotAwaited == [kind |-> "none"]

\* Mutant: the error test inverted.
ReturnDataUnlessError_Inverted(awaited, neutral) ==
  IF awaited.kind = "rejects" THEN Throw
  ELSE IF ~Truthy(awaited.error) THEN Return(neutral)
  ELSE Return(awaited.data)

\* const { data, error } = await ...; if (error) return neutral; return data;
ReturnDataUnlessError(awaited, neutral) ==
  IF awaited.kind = "rejects" THEN Throw
  ELSE IF Truthy(awaited.error) THEN Return(neutral)
  ELSE Return(awaited.data)

\* Mutant: the code is used as given.
CallToUpperCase_AsGiven(x) ==
  IF x.t = "string" THEN Return(x) ELSE Throw

\* clinicCode.toUpperCase(): a TypeError unless clinicCode is a string
CallToUpperCase(x) ==
  IF x.t = "string" THEN Return(Str(toUpperCase(x.v))) ELSE Throw

-----------------------------------------------------------------------------
(* Clinics: lines 46-124 *)

getClinicByCode_try(clinicCode) ==
  LET upper == CallToUpperCase(clinicCode)
  IN  IF upper.kind = "throw" THEN Throw
      ELSE Await(Query("clinics", "select", JSUndefined,
                       Eq("clinic_code", upper.value), TRUE))

getClinicByCode_call(clinicCode) ==
  IF ~isSupabaseAvailable THEN Return(JSNull)
  ELSE TryCatch(getClinicByCode_try(clinicCode), JSNull)

getClinicByCode_resume(awaited) ==
  TryCatch(ReturnDataUnlessError(awaited, JSNull), JSNull)

\* A plain object: its own properties and its prototype.
ObjectPrototype == [t |-> "Object.prototype"]
PlainObject(own, proto) == [t |-> "plain", own |-> own, proto |-> proto]
EmptyObject == PlainObject(<<>>, ObjectPrototype)
ProtoKey == <<"_", "_", "p", "r", "o", "t", "o", "_", "_">>

\* obj[key] = value on a plain object: Object.prototype's __proto__ setter
\* takes the assignment when the key is "__proto__", any other key becomes
\* (or overwrites) an own property.
SetProperty(obj, key, value) ==
  IF key = ProtoKey
  THEN [obj EXCEPT !.proto = Obj(value)]
  ELSE [obj EXCEPT !.own = [k \in (DOMAIN obj.own) \cup {key} |->
                               IF k = key THEN value ELSE obj.own[k]]]

\* data.forEach((clinic) => { clinicsObj[clinic.clinic_code] = clinic; })
RECURSIVE forEachClinic(_, _)
forEachClinic(data, clinicsObj) ==
  IF data = <<>> THEN clinicsObj
  ELSE forEachClinic(Tail(data),
                     SetProperty(clinicsObj, Head(data).clinic_code, Head(data)))

getAllClinics_try ==
  Await(Query("clinics", "select", JSUndefined, NoFilter, FALSE))

getAllClinics_call ==
  IF ~isSupabaseAvailable THEN Return(EmptyObject)
  ELSE TryCatch(getAllClinics_try, EmptyObject)

getAllClinics_body(awaited) ==
  IF awaited.kind = "rejects" THEN Throw
  ELSE IF Truthy(awaited.error) THEN Return(EmptyObject)
  ELSE IF Truthy(awaited.data)
       THEN Return(forEachClinic(awaited.data.v, EmptyObject))
       ELSE Return(EmptyObject)

getAllClinics_resume(awaited) ==
  TryCatch(getAllClinics_body(awaited), EmptyObject)

createClinic_try(clinicData) ==
  Await(Query("clinics", "insert", Arr(<<clinicData>>), NoFilter, TRUE))

createClinic_call(clinicData) ==
  IF ~isSupabaseAvailable THEN Return(JSNull)
  ELSE TryCatch(createClinic_try(clinicData), JSNull)

createClinic_resume(awaited) ==
  TryCatch(ReturnDataUnlessError(awaited, JSNull), JSNull)

updateClinic_try(clinicCode, updates) ==
  LET upper == CallToUpperCase(clinicCode)
  IN  IF upper.kind = "throw" THEN Throw
      ELSE Await(Query("clinics", "update", updates,
                       Eq("clinic_code", upper.value), TRUE))

updateClinic_call(clinicCode, updates) ==
  IF ~isSupabaseAvailable THEN Return(JSNull)
  ELSE TryCatch(updateClinic_try(clinicCode, updates), JSNull)

updateClinic_resume(awaited) ==
  TryCatch(ReturnDataUnlessError(awaited, JSNull), JSNull)

-----------------------------------------------------------------------------
(* Patients: lines 127-201 *)

\* Mutant: the id is upper-cased like a clinic code, so it must be a string.
getPatientById_try_UpperCases(patientId) ==
  LET upper == CallToUpperCase(patientId)
  IN  IF upper.kind = "throw" THEN Throw
      ELSE Await(Query("patients", "select", JSUndefined,
                       Eq("patient_id", upper.value), TRUE))

getPatientById_try(patientId) ==
  Await(Query("patients", "select", JSUndefined,
              Eq("patient_id", patientId), TRUE))

getPatientById_call(patientId) ==
  IF ~isSupabaseAvailable THEN Return(JSNull)
  ELSE TryCatch(getPatientById_try(patientId), JSNull)

getPatientById_resume(awaited) ==
  TryCatch(ReturnDataUnlessError(awaited, JSNull), JSNull)

getPatientsByClinicCode_try(clinicCode) ==
  LET upper == CallToUpperCase(clinicCode)
  IN  IF upper.kind = "throw" THEN Throw
      ELSE Await(Query("patients", "select", JSUndefined,
                       Eq("clinic_code", upper.value), FALSE))

getPatientsByClinicCode_call(clinicCode) ==
  IF ~isSupabaseAvailable THEN Return(Arr(<<>>))
  ELSE TryCatch(getPatientsByClinicCode_try(clinicCode), Arr(<<>>))

\* Mutant: return data without the fallback to [].
getPatientsByClinicCode_body_NoFallback(awaited) ==
  IF awaited.kind = "rejects" THEN Throw
  ELSE IF Truthy(awaited.error) THEN Return(Arr(<<>>))
  ELSE Return(awaited.data)

\* if (error) return []; return data || [];
getPatientsByClinicCode_body(awaited) ==
  IF awaited.kind = "rejects" THEN Throw
  ELSE IF Truthy(awaited.error) THEN Return(Arr(<<>>))
  ELSE IF Truthy(awaited.data) THEN Return(awaited.data)
  ELSE Return(Arr(<<>>))

getPatientsByClinicCode_resume(awaited) ==
  TryCatch(getPatientsByClinicCode_body(awaited), Arr(<<>>))

createPatient_try(patientData) ==
  Await(Query("patients", "insert", Arr(<<patientData>>), NoFilter, TRUE))

createPatient_call(patientData) ==
  IF ~isSupabaseAvailable THEN Return(JSNull)
  ELSE TryCatch(createPatient_try(patientData), JSNull)

createPatient_resume(awaited) ==
  TryCatch(ReturnDataUnlessError(awaited, JSNull), JSNull)

updatePatient_try(patientId, updates) ==
  Await(Query("patients", "update", updates,
              Eq("patient_id", patientId), TRUE))

updatePatient_call(patientId, updates) ==
  IF ~isSupabaseAvailable THEN Return(JSNull)
  ELSE TryCatch(updatePatient_try(patientId, updates), JSNull)

updatePatient_resume(awaited) ==
  TryCatch(ReturnDataUnlessError(awaited, JSNull), JSNull)

-----------------------------------------------------------------------------
(* Inputs of the callers and answers of the remote service *)

CodeArguments ==
  {Str(<<"a", "b">>), Str(<<"A", "b">>), Str(<<"A", "B">>), JSNull, JSUndefined}

IdArguments == {Str(<<"p", "1">>), Str(<<"P", "1">>), JSNull}

ClinicData ==
  {Obj([clinic_code |-> <<"a", "b">>, name |-> "N"]),
   Obj([clinic_code |-> <<"A", "B">>, name |-> "N"])}

ClinicUpdates == {Obj([name |-> "M"])}

PatientData == {Obj([patient_id |-> <<"p", "1">>, clinic_code |-> <<"a", "b">>])}

PatientUpdates == {Obj([clinic_code |-> <<"A", "B">>])}

\* rows as the remote returns them, with the server-assigned id
ClinicRows ==
  {[clinic_code |-> <<"A">>, name |-> "first", id |-> 1],
   [clinic_code |-> <<"B">>, name |-> "second", id |-> 2],
   [clinic_code |-> <<"A">>, name |-> "third", id |-> 3],
   [clinic_code |-> ProtoKey, name |-> "fourth", id |-> 4]}

PatientRows ==
  {[patient_id |-> <<"p", "1">>, clinic_code |-> <<"A", "B">>, id |-> 1],
   [patient_id |-> <<"P", "1">>, clinic_code |-> <<"A", "B">>, id |-> 2],
   [patient_id |-> <<"p", "2">>, clinic_code |-> <<"A", "B">>, id |-> 3]}

\* the lists of at most n rows of a table, no row twice
RowLists(S, n) ==
  UNION {{s \in [1..k -> S] : \A i, j \in 1..k : i # j => s[i] # s[j]} :
         k \in 0..n}

\* a query that ends in .single(): one row, no row, an error, a rejection
SingleRowResponses(rows) ==
  {Rejects, Resolves(JSNull, JSNull), Resolves(JSNull, ErrorObject)}
    \cup {Resolves(Obj(r), JSNull) : r \in rows}
    \cup {Resolves(Obj(r), ErrorObject) : r \in rows}

\* a query that returns a list of rows
ListResponses(rows, n) ==
  {Rejects, Resolves(JSNull, JSNull), Resolves(JSNull, ErrorObject)}
    \cup {Resolves(Arr(s), JSNull) : s \in RowLists(rows, n)}
    \cup {Resolves(Arr(<<r>>), ErrorObject) : r \in rows}

-----------------------------------------------------------------------------
(* Invocations *)

\* The synchronous part of an async function: it returns at the gate or in
\* the catch block, or it issues its query and suspends at the await.
Invoke(c, op, args, started) ==
  /\ pc = "loaded"
  /\ inflight[c] = Idle
  /\ IF started.kind = "await"
     THEN /\ inflight' = [inflight EXCEPT ![c] =
                            [op |-> op, args |-> args, query |-> started.query]]
          /\ UNCHANGED settled
     ELSE /\ settled' = [op |-> op, args |-> args, issued |-> <<>>,
                         awaited |-> NotAwaited, outcome |-> started]
          /\ UNCHANGED inflight
  /\ UNCHANGED <<env, pc, createClient, SUPABASE_URL,
                 SUPABASE_SERVICE_ROLE_KEY, supabase, clinics>>

\* Mutant: a catch block that drops the handle when the call rejected.
Resume_DropsHandleOnReject(c, op, awaited, outcome) ==
  /\ inflight[c].op = op
  /\ settled' = [op |-> op, args |-> inflight[c].args,
                 issued |-> <<inflight[c].query>>,
                 awaited |-> awaited, outcome |-> outcome]
  /\ inflight' = [inflight EXCEPT ![c] = Idle]
  /\ supabase' = IF awaited.kind = "rejects" THEN JSNull ELSE supabase
  /\ UNCHANGED <<env, pc, createClient, SUPABASE_URL,
                 SUPABASE_SERVICE_ROLE_KEY, clinics>>

\* The continuation after the await: the function's promise settles.
Resume(c, op, awaited, outcome) ==
  /\ inflight[c].op = op
  /\ settled' = [op |-> op, args |-> inflight[c].args,
                 issued |-> <<inflight[c].query>>,
                 awaited |-> awaited, outcome |-> outcome]
  /\ inflight' = [inflight EXCEPT ![c] = Idle]
  /\ UNCHANGED <<env, pc, createClient, SUPABASE_URL,
                 SUPABASE_SERVICE_ROLE_KEY, supabase, clinics>>

getClinicByCodeCall(c) ==
  \E clinicCode \in CodeArguments :
    Invoke(c, "getClinicByCode", <<clinicCode>>, getClinicByCode_call(clinicCode))

getClinicByCodeReturn(c) ==
  \E awaited \in SingleRowResponses(ClinicRows) :
    Resume(c, "getClinicByCode", awaited, getClinicByCode_resume(awaited))

getAllClinicsCall(c) ==
  Invoke(c, "getAllClinics", <<>>, getAllClinics_call)

getAllClinicsReturn(c) ==
  \E awaited \in ListResponses(ClinicRows, MaxClinicRows) :
    Resume(c, "getAllClinics", awaited, getAllClinics_resume(awaited))

createClinicCall(c) ==
  \E clinicData \in ClinicData :
    Invoke(c, "createClinic", <<clinicData>>, createClinic_call(clinicData))

createClinicReturn(c) ==
  \E awaited \in SingleRowResponses(ClinicRows) :
    Resume(c, "createClinic", awaited, createClinic_resume(awaited))

updateClinicCall(c) ==
  \E clinicCode \in CodeArguments, updates \in ClinicUpdates :
    Invoke(c, "updateClinic", <<clinicCode, updates>>,
           updateClinic_call(clinicCode, updates))

updateClinicReturn(c) ==
  \E awaited \in SingleRowResponses(ClinicRows) :
    Resume(c, "updateClinic", awaited, updateClinic_resume(awaited))

getPatientByIdCall(c) ==
  \E patientId \in IdArguments :
    Invoke(c, "getPatientById", <<patientId>>, getPatientById_call(patientId))

getPatientByIdReturn(c) ==
  \E awaited \in SingleRowResponses(PatientRows) :
    Resume(c, "getPatientById", awaited, getPatientById_resume(awaited))

getPatientsByClinicCodeCall(c) ==
  \E clinicCode \in CodeArguments :
    Invoke(c, "getPatientsByClinicCode", <<clinicCode>>,
           getPatientsByClinicCode_call(clinicCode))

getPatientsByClinicCodeReturn(c) ==
  \E awaited \in ListResponses(PatientRows, MaxPatientRows) :
    Resume(c, "getPatientsByClinicCode", awaited,
           getPatientsByClinicCode_resume(awaited))

createPatientCall(c) ==
  \E patientData \in PatientData :
    Invoke(c, "createPatient", <<patientData>>, createPatient_call(patientData))

createPatientReturn(c) ==
  \E awaited \in SingleRowResponses(PatientRows) :
    Resume(c, "createPatient", awaited, createPatient_resume(awaited))

updatePatientCall(c) ==
  \E patientId \in IdArguments, updates \in PatientUpdates :
    Invoke(c, "updatePatient", <<patientId, updates>>,
           updatePatient_call(patientId, updates))

updatePatientReturn(c) ==
  \E awaited \in SingleRowResponses(PatientRows) :
    Resume(c, "updatePatient", awaited, updatePatient_resume(awaited))

Next ==
  \/ RequireClientLibrary
  \/ ReadCredentials
  \/ InitializeClient
  \/ \E c \in Callers : getClinicByCodeCall(c)
  \/ \E c \in Callers : getClinicByCodeReturn(c)
  \/ \E c \in Callers : getAllClinicsCall(c)
  \/ \E c \in Callers : getAllClinicsReturn(c)
  \/ \E c \in Callers : createClinicCall(c)
  \/ \E c \in Callers : createClinicReturn(c)
  \/ \E c \in Callers : updateClinicCall(c)
  \/ \E c \in Callers : updateClinicReturn(c)
  \/ \E c \in Callers : getPatientByIdCall(c)
  \/ \E c \in Callers : getPatientByIdReturn(c)
  \/ \E c \in Callers : getPatientsByClinicCodeCall(c)
  \/ \E c \in Callers : getPatientsByClinicCodeReturn(c)
  \/ \E c \in Callers : createPatientCall(c)
  \/ \E c \in Callers : createPatientReturn(c)
  \/ \E c \in Callers : updatePatientCall(c)
  \/ \E c \in Callers : updatePatientReturn(c)

Spec == Init /\ [][Next]_vars

-----------------------------------------------------------------------------
(* The same facade against a remote that keeps a clinics table: it stores  *)
(* rows as sent, matches codes exactly and keeps clinic_code unique.       *)

RowsWhere(table, column, value) ==
  SelectSeq(table, LAMBDA row : Str(row[column]) = value)

\* the fields of updates laid over row
Merge(row, updates) ==
  [f \in (DOMAIN row) \cup (DOMAIN updates) |->
     IF f \in DOMAIN updates THEN updates[f] ELSE row[f]]

OneRowOrError(rows) ==
  IF Len(rows) = 1 THEN Resolves(Obj(rows[1]), JSNull)
  ELSE Resolves(JSNull, ErrorObject)

\* what the remote answers to query q and the table it leaves behind
StoreAnswer(q, table) ==
  CASE q.verb = "select" /\ q.single ->
         [response |-> OneRowOrError(RowsWhere(table, q.filter[1], q.filter[2])),
          table |-> table]
    [] q.verb = "select" /\ ~q.single ->
         [response |-> Resolves(Arr(table), JSNull), table |-> table]
    [] q.verb = "insert" ->
         LET row == q.payload.v[1].v
         IN  IF RowsWhere(table, "clinic_code", Str(row.clinic_code)) # <<>>
             THEN [response |-> Resolves(JSNull, ErrorObject), table |-> table]
             ELSE [response |-> Resolves(Obj(row), JSNull),
                   table |-> Append(table, row)]
    [] q.verb = "update" ->
         LET hit(row) == Str(row[q.filter[1]]) = q.filter[2]
             after == [i \in 1..Len(table) |->
                         IF hit(table[i]) THEN Merge(table[i], q.payload.v)
                         ELSE table[i]]
         IN  [response |-> OneRowOrError(SelectSeq(after, hit)), table |-> after]

\* The continuation after the await, resumed with the store's answer.
StoreResume(c, op, awaited, outcome) ==
  /\ inflight[c].op = op
  /\ inflight[c].query.verb = "insert" => Len(clinics) < MaxStored
  /\ settled' = [op |-> op, args |-> inflight[c].args,
                 issued |-> <<inflight[c].query>>,
                 awaited |-> awaited, outcome |-> outcome]
  /\ inflight' = [inflight EXCEPT ![c] = Idle]
  /\ clinics' = StoreAnswer(inflight[c].query, clinics).table
  /\ UNCHANGED <<env, pc, createClient, SUPABASE_URL,
                 SUPABASE_SERVICE_ROLE_KEY, supabase>>

StoreResponse(c) == StoreAnswer(inflight[c].query, clinics).response

getClinicByCodeStoreReturn(c) ==
  /\ inflight[c].op = "getClinicByCode"
  /\ StoreResume(c, "getClinicByCode", StoreResponse(c),
                 getClinicByCode_resume(StoreResponse(c)))

getAllClinicsStoreReturn(c) ==
  /\ inflight[c].op = "getAllClinics"
  /\ StoreResume(c, "getAllClinics", StoreResponse(c),
                 getAllClinics_resume(StoreResponse(c)))

createClinicStoreReturn(c) ==
  /\ inflight[c].op = "createClinic"
  /\ StoreResume(c, "createClinic", StoreResponse(c),
                 createClinic_resume(StoreResponse(c)))

updateClinicStoreReturn(c) ==
  /\ inflight[c].op = "updateClinic"
  /\ StoreResume(c, "updateClinic", StoreResponse(c),
                 updateClinic_resume(StoreResponse(c)))

\* one caller, one invocation after the other
StoreCallers == {"c1"}

NextStore ==
  \/ RequireClientLibrary
  \/ ReadCredentials
  \/ InitializeClient
  \/ \E c \in StoreCallers : getClinicByCodeCall(c)
  \/ \E c \in StoreCallers : getClinicByCodeStoreReturn(c)
  \/ \E c \in StoreCallers : getAllClinicsCall(c)
  \/ \E c \in StoreCallers : getAllClinicsStoreReturn(c)
  \/ \E c \in StoreCallers : createClinicCall(c)
  \/ \E c \in StoreCallers : createClinicStoreReturn(c)
  \/ \E c \in StoreCallers : updateClinicCall(c)
  \/ \E c \in StoreCallers : updateClinicStoreReturn(c)

SpecStore == Init /\ [][NextStore]_vars

-----------------------------------------------------------------------------
(* Vocabulary of the claims *)

\* the documented neutral value of each operation
NeutralValue(op) ==
  CASE op = "getPatientsByClinicCode" -> Arr(<<>>)
    [] op = "getAllClinics" -> PlainObject(<<>>, ObjectPrototype)
    [] OTHER -> JSNull

UpperCasingOps == {"getClinicByCode", "updateClinic", "getPatientsByClinicCode"}
ExactIdOps == {"getPatientById", "updatePatient"}
SingleRecordOps ==
  {"getClinicByCode", "createClinic", "updateClinic",
   "getPatientById", "createPatient", "updatePatient"}

HasSettled == settled.op # "none"
Suspended(c) == inflight[c] # Idle

NonEmptyString(x) == x.t = "string" /\ x.v # <<>>

LetterPairs ==
  {<<"a", "A">>, <<"b", "B">>, <<"o", "O">>, <<"p", "P">>, <<"r", "R">>,
   <<"t", "T">>}
LowerLetters == {pair[1] : pair \in LetterPairs}

\* two strings that differ at most in the case of their letters
SameUpToCase(x, y) ==
  /\ x.t = "string" /\ y.t = "string"
  /\ Len(x.v) = Len(y.v)
  /\ \A i \in 1..Len(x.v) :
       \/ x.v[i] = y.v[i]
       \/ <<x.v[i], y.v[i]>> \in LetterPairs
       \/ <<y.v[i], x.v[i]>> \in LetterPairs

\* x is the upper-cased form of y
UpperCasedFormOf(x, y) ==
  /\ SameUpToCase(x, y)
  /\ \A i \in 1..Len(x.v) : x.v[i] \notin LowerLetters

RemoteFailed(awaited) ==
  \/ awaited.kind = "rejects"
  \/ awaited.kind = "resolves" /\ awaited.error # JSNull

RemoteSucceeded(awaited) ==
  awaited.kind = "resolves" /\ awaited.error = JSNull

-----------------------------------------------------------------------------
(* Claims *)

\* C1: with the handle absent -- in particular whenever the endpoint URL or
\* the privileged key is empty -- isSupabaseAvailable() is false, every
\* operation has returned its neutral value at once, and no remote call has
\* been made: no invocation is suspended on one and none that returned issued
\* one.
C1_UnavailableIsNeutral ==
  /\ (pc = "loaded" /\ ~(NonEmptyString(env.SUPABASE_URL)
                         /\ NonEmptyString(env.SUPABASE_SERVICE_ROLE_KEY)))
       => supabase = JSNull
  /\ (pc = "loaded" /\ supabase = JSNull) =>
       /\ ~isSupabaseAvailable
       /\ \A c \in Callers : ~Suspended(c)
       /\ HasSettled =>
            /\ settled.outcome = Return(NeutralValue(settled.op))
            /\ settled.issued = <<>>
            /\ settled.awaited = NotAwaited

C1_Witness ==
  /\ pc = "loaded"
  /\ env.packageInstalled /\ ~env.constructorThrows
  /\ env.SUPABASE_URL = Str(<<>>)
  /\ settled.op = "getAllClinics"
  /\ settled.outcome = Return(PlainObject(<<>>, ObjectPrototype))
  /\ settled.issued = <<>>

\* C2: every invocation that finished, finished by returning a value, and
\* when its remote call rejected or resolved with an error object (whatever
\* data came with it) the value is the operation's neutral value.
C2_FailuresReturnNeutral ==
  HasSettled =>
    /\ settled.outcome.kind = "return"
    /\ RemoteFailed(settled.awaited) =>
         settled.outcome = Return(NeutralValue(settled.op))

C2_Witness ==
  /\ isSupabaseAvailable
  /\ settled.op = "getAllClinics"
  /\ settled.awaited.kind = "resolves"
  /\ settled.awaited.error # JSNull
  /\ settled.awaited.data # JSNull
  /\ settled.outcome = Return(PlainObject(<<>>, ObjectPrototype))

\* C3: once the module body has run, the handle is present, and
\* isSupabaseAvailable() true, exactly when the client library was found,
\* the URL and the key are non-empty strings and construction did not throw;
\* otherwise the handle is null; and the module body never ends in a throw.
C3_HandleIffPreconditions ==
  /\ pc \in {"require", "credentials", "client", "loaded"}
  /\ pc = "loaded" =>
       LET expected == /\ env.packageInstalled
                       /\ NonEmptyString(env.SUPABASE_URL)
                       /\ NonEmptyString(env.SUPABASE_SERVICE_ROLE_KEY)
                       /\ ~env.constructorThrows
       IN  /\ isSupabaseAvailable <=> expected
           /\ supabase # JSNull <=> expected
           /\ expected => supabase.t = "client"

C3_Witness ==
  /\ pc = "loaded"
  /\ isSupabaseAvailable
  /\ supabase.url = <<"u", "r", "l">>
  /\ supabase.key = <<"k", "e", "y">>

\* C4: getClinicByCode, updateClinic and getPatientsByClinicCode filter on
\* clinic_code equal to the upper-cased form of the code they were given, so
\* two invocations of the same operation whose codes differ only in case
\* (and whose other arguments agree) issue the same query; getPatientById
\* and updatePatient filter on patient_id equal to the id exactly as given.
C4_CodesQueryUpperCased ==
  /\ \A c \in Callers :
       /\ (Suspended(c) /\ inflight[c].op \in UpperCasingOps) =>
            /\ inflight[c].query.filter[1] = "clinic_code"
            /\ UpperCasedFormOf(inflight[c].query.filter[2], inflight[c].args[1])
       /\ (Suspended(c) /\ inflight[c].op \in ExactIdOps) =>
            inflight[c].query.filter = <<"patient_id", inflight[c].args[1]>>
       /\ (Suspended(c) /\ inflight[c].op = "getClinicByCode") =>
            /\ inflight[c].query.table = "clinics"
            /\ inflight[c].query.verb = "select"
            /\ inflight[c].query.single
  /\ \A c, d \in Callers :
       (/\ Suspended(c) /\ Suspended(d)
        /\ inflight[c].op \in UpperCasingOps
        /\ inflight[d].op = inflight[c].op
        /\ SameUpToCase(inflight[c].args[1], inflight[d].args[1])
        /\ Tail(inflight[c].args) = Tail(inflight[d].args))
         => inflight[c].query = inflight[d].query

C4_Witness ==
  /\ inflight["c1"].op = "getClinicByCode"
  /\ inflight["c2"].op = "getClinicByCode"
  /\ inflight["c1"].args = <<Str(<<"a", "b">>)>>
  /\ inflight["c2"].args = <<Str(<<"A", "B">>)>>
  /\ inflight["c1"].query = inflight["c2"].query

\* C5 (as claimed): against the remote that stores rows as sent, each stored
\* clinic (all of them were stored by a createClinic that succeeded) is what
\* getClinicByCode returns for every code equal to its clinic_code up to
\* case, and getAllClinics holds it under its upper-cased code.
C5_Original ==
  /\ (settled.op = "getClinicByCode" /\ settled.args[1].t = "string") =>
       \A i \in 1..Len(clinics) :
         SameUpToCase(Str(clinics[i].clinic_code), settled.args[1])
           => settled.outcome = Return(Obj(clinics[i]))
  /\ (settled.op = "getAllClinics" /\ isSupabaseAvailable) =>
       \A i \in 1..Len(clinics) :
         \E k \in DOMAIN settled.outcome.value.own :
           /\ UpperCasedFormOf(Str(k), Str(clinics[i].clinic_code))
           /\ settled.outcome.value.own[k] = clinics[i]

\* C6 (as claimed): when getAllClinics' query resolves without error, the
\* keys of the result are exactly the clinic_code values of the rows and
\* each key holds the last row with that code; with null data or no rows
\* the result has no key.
C6_Original ==
  (settled.op = "getAllClinics" /\ RemoteSucceeded(settled.awaited)) =>
    LET rows == IF settled.awaited.data = JSNull THEN <<>>
                ELSE settled.awaited.data.v
        result == settled.outcome.value
    IN  /\ settled.outcome.kind = "return"
        /\ DOMAIN result.own = {rows[i].clinic_code : i \in 1..Len(rows)}
        /\ \A i \in 1..Len(rows) :
             (\A j \in (i+1)..Len(rows) : rows[j].clinic_code # rows[i].clinic_code)
               => result.own[rows[i].clinic_code] = rows[i]

\* C7: getPatientsByClinicCode always returns an array: the remote's rows,
\* in the remote's order, when the query resolved without error with at
\* least one row, and the empty array in every other case (no rows, null
\* data, backend error, rejection, a code that cannot be upper-cased, handle
\* absent).
C7_PatientsAlwaysASequence ==
  settled.op = "getPatientsByClinicCode" =>
    /\ settled.outcome.kind = "return"
    /\ settled.outcome.value.t = "array"
    /\ IF /\ RemoteSucceeded(settled.awaited)
          /\ settled.awaited.data.t = "array"
          /\ Len(settled.awaited.data.v) > 0
       THEN settled.outcome.value = settled.awaited.data
       ELSE settled.outcome.value = Arr(<<>>)

C7_Witness ==
  /\ settled.op = "getPatientsByClinicCode"
  /\ settled.awaited = Resolves(JSNull, JSNull)
  /\ settled.outcome = Return(Arr(<<>>))

\* C8: each single-record operation whose query resolved without error
\* returns the very record the remote returned (server-assigned fields
\* included, nothing added, removed or changed), and createClinic returns
\* null when the backend rejected the insert.
C8_RemoteRecordPassedThrough ==
  /\ (settled.op \in SingleRecordOps /\ RemoteSucceeded(settled.awaited))
       => settled.outcome = Return(settled.awaited.data)
  /\ (settled.op = "createClinic" /\ HasSettled /\ RemoteFailed(settled.awaited))
       => settled.outcome = Return(JSNull)

C8_Witness ==
  /\ settled.op = "createClinic"
  /\ RemoteSucceeded(settled.awaited)
  /\ settled.awaited.data.t = "object"
  /\ settled.awaited.data.v.id = 1
  /\ "id" \notin DOMAIN settled.args[1].v
  /\ settled.outcome.value = settled.awaited.data

\* C9: after the bootstrap no step changes the handle or what
\* isSupabaseAvailable() returns, whatever is in flight and however an
\* invocation ends; and an invocation with the same operation, arguments and
\* remote answer as the one that returned before it returns the same value,
\* whatever else was in flight or had happened in between.
C9_HandleFixedAndResultsIndependent ==
  [][/\ pc = "loaded" =>
          /\ supabase' = supabase
          /\ isSupabaseAvailable' = isSupabaseAvailable
     /\ (/\ HasSettled
         /\ settled'.op = settled.op
         /\ settled'.args = settled.args
         /\ settled'.awaited = settled.awaited)
          => settled'.outcome = settled.outcome]_vars

C9_Witness ==
  /\ isSupabaseAvailable
  /\ settled.op = "createPatient"
  /\ settled.awaited = Rejects
  /\ inflight["c1"].op = "getClinicByCode"
  /\ inflight["c2"].op = "updatePatient"

\* C10 (as claimed): with the handle present, every invocation that returned
\* issued exactly one remote call.
C10_Original ==
  (HasSettled /\ isSupabaseAvailable) => Len(settled.issued) = 1

\* C10 (amended): with the handle present, an invocation issues exactly one
\* remote call before it returns, except that getClinicByCode, updateClinic
\* and getPatientsByClinicCode given a code that is not a string issue none
\* and return their neutral value; no invocation issues more than one.
C10_OneCallUnlessCodeNotAString ==
  (HasSettled /\ isSupabaseAvailable) =>
    IF settled.op \in UpperCasingOps /\ settled.args[1].t # "string"
    THEN /\ settled.issued = <<>>
         /\ settled.outcome = Return(NeutralValue(settled.op))
    ELSE Len(settled.issued) = 1

C10_Witness ==
  /\ isSupabaseAvailable
  /\ settled.op = "updateClinic"
  /\ settled.args[1] = JSUndefined
  /\ settled.issued = <<>>
  /\ settled.outcome = Return(JSNull)

====
